---- MODULE Spec2Model ----
(***************************************************************************)
(* The generic LLM worker (worker.ts): the GenericLLMPipeline singleton,   *)
(* its Session Store, the generation coordinator _generate, and the        *)
(* message handlers of the worker protocol boundary.                       *)
(*                                                                         *)
(* The worker is single-threaded: a handler runs from the arrival of its   *)
(* message to its first await on the external runtime without any other    *)
(* handler running, and continues the same way when the awaited call       *)
(* settles.  Each such run-to-completion stretch is one action.  The       *)
(* external collaborators (tokenizer, model runtime) are nondeterministic: *)
(* a call may return or throw, and the runtime calls the streamer's        *)
(* callbacks while generate is pending.                                    *)
(***************************************************************************)
EXTENDS Integers, Sequences, FiniteSets, TLC

\* Bounds of the model.
MaxReq == 2         \* initialize, generateChat and generateSingle requests
MaxTokens == 2      \* tokens the runtime emits per call
MaxClock == 1       \* largest reading of Date.now()
MaxProgress == 2    \* progress callbacks of the model loads

\* The requests are numbered as they arrive.
Tasks == 1..(MaxReq + 1)

\* A request field that is not present (undefined).
Absent == "<undefined>"

\* The values a request may carry.
SessionIdInputs == {Absent, ""}
SystemInputs == {Absent, "Be brief."}
MessageInputs == {"Hello"}
SessionKeys == {"default", "", "s1"}

\* JavaScript truthiness of an optional string.
Truthy(s) == s # Absent /\ s # ""

\* `options.sessionId || 'default'` (handlers)
HandlerSessionId(s) == IF Truthy(s) THEN s ELSE "default"

\* `sessionId = 'default'` (default parameter / destructuring default:
\* applies to undefined only)
PipelineSessionId(s) == IF s = Absent THEN "default" ELSE s

\* A text is a sequence of characters; a request's string is kept whole, as
\* a text of one element.
Text(s) == <<s>>

DEFAULT_SYSTEM_MESSAGE ==
    [role |-> "system",
     content |-> Text("You are a helpful AI assistant. Provide clear, concise, and accurate responses.")]

PresetNames == {"smollm2-1.7b", "smollm2-360m"}

\* size is in units of 0.1 * 1024^3 bytes.
DEFAULT_MODELS ==
    [n \in PresetNames |->
        IF n = "smollm2-1.7b"
        THEN [id |-> "HuggingFaceTB/SmolLM2-1.7B-Instruct", size |-> 11]
        ELSE [id |-> "HuggingFaceTB/SmolLM2-360M-Instruct", size |-> 3]]

\* The descriptor sent as modelConfig.model when that is an object.
CustomModel(id) == [id |-> id, size |-> 6]

\* progress.loaded as the runtime reports it while an .onnx file loads, in
\* the units of size.
LoadedInputs == {0, 4}

\* The keys of a GenerationConfig; a key a config does not have is Absent.
ConfigKeys == {"do_sample", "temperature", "top_p", "max_new_tokens",
               "repetition_penalty"}
NoConfig == [k \in ConfigKeys |-> Absent]

DEFAULT_GENERATION_CONFIG ==
    [k \in ConfigKeys |->
        CASE k = "do_sample" -> "true"
          [] k = "temperature" -> "0.7"
          [] k = "top_p" -> "0.9"
          [] k = "max_new_tokens" -> "1024"
          [] k = "repetition_penalty" -> "1.1"]

\* Spread as it would be if the left operand won.
SpreadLeftWins(lower, upper) ==
    [k \in ConfigKeys |-> IF lower[k] = Absent THEN upper[k] ELSE lower[k]]

\* `{ ...lower, ...upper }` on the keys of a GenerationConfig.
Spread(lower, upper) ==
    [k \in ConfigKeys |-> IF upper[k] = Absent THEN lower[k] ELSE upper[k]]

\* modelConfig.model as sent with initialize: a preset name, a descriptor
\* object, or something else.
ModelInputs ==
    {[type |-> "string", value |-> "smollm2-360m"],
     [type |-> "object", value |-> "custom/model"],
     [type |-> "string", value |-> "no-such-preset"]}

\* The generation settings sent along with modelConfig.model.
InitializeConfig(m) ==
    CASE m.value = "smollm2-360m" -> NoConfig
      [] m.value = "custom/model" ->
            [NoConfig EXCEPT !["temperature"] = "0.2", !["max_new_tokens"] = "64"]
      [] OTHER -> [NoConfig EXCEPT !["top_p"] = "0.5"]

\* generationConfig as sent with generateChat and generateSingle: none
\* with a request that has no systemMessage, one override with the others.
GenerationConfig(systemMessage) ==
    IF systemMessage = Absent THEN NoConfig
    ELSE [NoConfig EXCEPT !["max_new_tokens"] = "256"]

\* What the host answers to a capability query: is navigator.gpu there,
\* and what requestAdapter does.
NoHost == [gpu |-> FALSE, adapter |-> "none"]

NoModelInfo == [id |-> "null", size |-> 0]
NotLoaded == "null"

UNINITIALIZED == "Model not initialized. Call initialize() first."
INVALID_MODEL == "Invalid model configuration"

\* What the runtime streams and decodes; "M" stands for the assistant-turn
\* marker 'assistant\n' of the chat template, " " for white space.
\* The text of the k-th token of a generation.
Fragment(k) == IF k % 2 = 1 THEN <<"a">> ELSE <<"b">>
DecodedOutputs == {<<"M", "o", "k">>, <<"M", " ">>}

VARIABLES
    tokenizer,      \* pipeline.tokenizer: NotLoaded or the id it was loaded from
    model,          \* pipeline.model: NotLoaded or the id it was loaded from
    modelInfo,      \* pipeline.modelInfo
    config,         \* pipeline.config (every key Absent: null)
    sessionHistory, \* pipeline.sessionHistory: key -> session object (0: no entry)
    heap,           \* the SessionData objects, by object id
    currentStoppingCriteria, \* 0 (null) or the handle of the call that made it
    interrupted,    \* handle -> has interrupt() been called on it
    nreq,           \* asynchronous requests received so far
    left,           \* asynchronous requests still to come
    kind,           \* request -> its type
    pc,             \* request -> where its handler is suspended
    req,            \* request -> the data it carried
    session,        \* request -> the session object its generateChat holds
    loading,        \* request -> the id its pending load was called with
    input,          \* request -> the messages its _generate templated
    pkvIn,          \* request -> the past_key_values its _generate passed
    numTokens,      \* request -> _generate's numTokens
    generatedText,  \* request -> _generate's generatedText
    settings,       \* request -> the config its _generate passed to the runtime
    host,           \* request -> what the host answered to its capability query
    client,         \* the UI client: its flags, its controls, the events it has handled
    events,         \* request -> the events its handler posted, in order
    syncEvent,      \* the event the step just taken posted, when it was the
                    \* step of a handler that awaits nothing (else NoEvent)
    inbound,        \* the type of the message that step handled (else NoMessage)
    clock,          \* the latest reading of Date.now()
    before,         \* request -> the store entry of its key when it arrived
    calls,          \* key -> generateChat calls on it since its session was created
    lastClear,      \* key -> time of the latest clearSession (-1: never)
    lastDone,       \* key -> latest generateChat completed on its session
    prevDone,       \* request -> lastDone of its key when it arrived
    cleared         \* request -> was its key cleared while it was in flight

vars == <<tokenizer, model, modelInfo, config, sessionHistory, heap,
          currentStoppingCriteria, interrupted, nreq, left, kind, pc, req, session,
          loading, input, pkvIn, numTokens, generatedText, settings, host, client, events,
          syncEvent,
          inbound, clock, before, calls, lastClear, lastDone, prevDone, cleared>>

pipelineVars == <<tokenizer, model, modelInfo, config>>
storeVars == <<sessionHistory, heap>>
handleVars == <<currentStoppingCriteria, interrupted>>
generateVars == <<input, pkvIn, numTokens, generatedText, settings>>
ghostVars == <<before, calls, lastClear, lastDone, prevDone, cleared>>

NoSession == [messages |-> <<>>, pastKeyValues |-> 0, createdAt |-> 0]
NoRequest == [sessionId |-> Absent, systemMessage |-> Absent,
              message |-> Absent, model |-> Absent, config |-> NoConfig]
NoEvent == [type |-> "none", status |-> "none", data |-> [none |-> TRUE]]

\* The UI client after createUI and setupEventListeners, before it has
\* handled any event of the worker: the message input and the Send button
\* are disabled, the Load button is not.  handled is, per request, the
\* number of its events the client's onmessage has handled.
NoClient ==
    [isModelLoaded |-> FALSE,
     sendDisabled |-> TRUE,
     inputDisabled |-> TRUE,
     loadDisabled |-> FALSE,
     handled |-> [t \in Tasks |-> 0]]

NoMessage == "none"

Event(type, status, data) == [type |-> type, status |-> status, data |-> data]

\* self.postMessage from the handler of request t
PostMessage(t, evs) == events' = [events EXCEPT ![t] = @ \o evs]

ErrorData(msg) == [error |-> msg]

Init ==
    /\ tokenizer = NotLoaded
    /\ model = NotLoaded
    /\ modelInfo = NoModelInfo
    /\ config = NoConfig
    /\ sessionHistory = [k \in SessionKeys |-> 0]
    /\ heap = [o \in Tasks |-> NoSession]
    /\ currentStoppingCriteria = 0
    /\ interrupted = [t \in Tasks |-> FALSE]
    /\ nreq = 0
    /\ left = MaxReq
    /\ kind = [t \in Tasks |-> "none"]
    /\ pc = [t \in Tasks |-> "idle"]
    /\ req = [t \in Tasks |-> NoRequest]
    /\ session = [t \in Tasks |-> 0]
    /\ loading = [t \in Tasks |-> NotLoaded]
    /\ input = [t \in Tasks |-> <<>>]
    /\ pkvIn = [t \in Tasks |-> 0]
    /\ numTokens = [t \in Tasks |-> 0]
    /\ generatedText = [t \in Tasks |-> <<>>]
    /\ settings = [t \in Tasks |-> NoConfig]
    /\ host = [t \in Tasks |-> NoHost]
    /\ client = NoClient
    /\ events = [t \in Tasks |-> <<>>]
    /\ syncEvent = NoEvent
    /\ inbound = NoMessage
    /\ clock = 0
    /\ before = [t \in Tasks |-> NoSession]
    /\ calls = [k \in SessionKeys |-> 0]
    /\ lastClear = [k \in SessionKeys |-> -1]
    /\ lastDone = [k \in SessionKeys |-> 0]
    /\ prevDone = [t \in Tasks |-> 0]
    /\ cleared = [t \in Tasks |-> FALSE]

\* A reading of Date.now(): time does not go back.
Now(now) == now \in clock..(IF clock < MaxClock THEN clock + 1 ELSE clock)

-----------------------------------------------------------------------------
(* initialize                                                              *)

\* The test of `typeof model === 'string' && DEFAULT_MODELS[model]` and of
\* `model && typeof model === 'object'`.
ValidModel(m) ==
    \/ m.type = "string" /\ m.value \in PresetNames
    \/ m.type = "object"

ResolveModel(m) ==
    IF m.type = "string" /\ m.value \in PresetNames
    THEN DEFAULT_MODELS[m.value]
    ELSE CustomModel(m.value)

LoadingEvent ==
    Event("initialize", "loading", [message |-> "Initializing model..."])

\* An initialize message arrives: the handler runs up to its first await
\* (a load, or the warm-up generation when both are loaded already).
ReqInitialize(m) ==
    LET t == nreq + 1 IN
    /\ left > 0
    /\ left' = left - 1
    /\ nreq' = t
    /\ kind' = [kind EXCEPT ![t] = "initialize"]
    /\ req' = [req EXCEPT ![t] = [NoRequest EXCEPT !.model = m.value,
                                                   !.config = InitializeConfig(m)]]
    /\ config' = Spread(DEFAULT_GENERATION_CONFIG, InitializeConfig(m))
    /\ IF ~ValidModel(m)
       THEN /\ pc' = [pc EXCEPT ![t] = "done"]
            /\ PostMessage(t, <<LoadingEvent,
                    Event("initialize", "error", ErrorData(INVALID_MODEL))>>)
            /\ UNCHANGED <<modelInfo, loading>>
       ELSE /\ modelInfo' = ResolveModel(m)
            /\ PostMessage(t, <<LoadingEvent>>)
            /\ IF tokenizer = NotLoaded
               THEN /\ pc' = [pc EXCEPT ![t] = "loadTokenizer"]
                    /\ loading' = [loading EXCEPT ![t] = modelInfo'.id]
               ELSE IF model = NotLoaded
               THEN /\ pc' = [pc EXCEPT ![t] = "loadModel"]
                    /\ loading' = [loading EXCEPT ![t] = modelInfo'.id]
               ELSE /\ pc' = [pc EXCEPT ![t] = "warmup"]
                    /\ UNCHANGED loading
    /\ syncEvent' = NoEvent /\ inbound' = NoMessage
    /\ UNCHANGED <<tokenizer, model, host, client, storeVars, handleVars, session,
                   generateVars, clock, ghostVars>>

\* AutoTokenizer.from_pretrained resolves: this.tokenizer is set, then
\* `if (!this.model)` is tested and the model load is called with the
\* modelInfo of that moment.
TokenizerLoaded(t) ==
    /\ pc[t] = "loadTokenizer"
    /\ tokenizer' = loading[t]
    /\ IF model = NotLoaded
       THEN /\ pc' = [pc EXCEPT ![t] = "loadModel"]
            /\ loading' = [loading EXCEPT ![t] = modelInfo.id]
       ELSE /\ pc' = [pc EXCEPT ![t] = "warmup"]
            /\ UNCHANGED loading
    /\ syncEvent' = NoEvent /\ inbound' = NoMessage
    /\ UNCHANGED <<model, modelInfo, config, host, client, storeVars, handleVars, nreq, left, kind, req,
                   session, generateVars, events, clock, ghostVars>>

Progress(es) == SelectSeq(es, LAMBDA e : e.status = "progress")
ProgressCount(es) == Len(Progress(es))

\* `Math.round(Math.min((loaded / total) * 100, 100))`
Percentage(loaded, total) ==
    LET rounded == (200 * loaded + total) \div (2 * total) IN
    IF rounded > 100 THEN 100 ELSE rounded

\* What wrappedCallback passes to progressCallback; it reads this.modelInfo
\* when it is called.
ProgressData(n) ==
    [loaded |-> n,
     total |-> modelInfo.size,
     percentage |-> Percentage(n, modelInfo.size),
     modelName |-> modelInfo.id]

\* The loaded count of the latest progress event of request t.
LastLoaded(t) ==
    IF ProgressCount(events[t]) = 0 THEN 0
    ELSE Progress(events[t])[ProgressCount(events[t])].data.loaded

\* The progress events posted so far, over all requests.
RECURSIVE ProgressUpTo(_)
ProgressUpTo(t) ==
    IF t = 0 THEN 0 ELSE ProgressCount(events[t]) + ProgressUpTo(t - 1)
TotalProgress == ProgressUpTo(MaxReq + 1)

\* The runtime calls wrappedCallback for the .onnx file while the model
\* loads; the bytes it reports as loaded do not go down.
ModelProgress(t, n) ==
    /\ pc[t] = "loadModel"
    /\ TotalProgress < MaxProgress
    /\ n >= LastLoaded(t)
    /\ PostMessage(t, <<Event("initialize", "progress", ProgressData(n))>>)
    /\ syncEvent' = NoEvent /\ inbound' = NoMessage
    /\ UNCHANGED <<pipelineVars, host, client, storeVars, handleVars, nreq, left, kind, pc, req,
                   session, loading, generateVars, clock, ghostVars>>

\* AutoModelForCausalLM.from_pretrained resolves: this.model is set,
\* pipeline.initialize returns and the handler starts the warm-up generation.
ModelLoaded(t) ==
    /\ pc[t] = "loadModel"
    /\ model' = loading[t]
    /\ pc' = [pc EXCEPT ![t] = "warmup"]
    /\ syncEvent' = NoEvent /\ inbound' = NoMessage
    /\ UNCHANGED <<tokenizer, modelInfo, config, host, client, storeVars, handleVars, nreq, left, kind,
                   req, session, loading, generateVars, events, clock,
                   ghostVars>>

\* The warm-up generation resolves: ready.
WarmUpDone(t) ==
    /\ pc[t] = "warmup"
    /\ pc' = [pc EXCEPT ![t] = "done"]
    /\ PostMessage(t, <<Event("initialize", "ready",
                              [modelInfo |-> modelInfo])>>)
    /\ syncEvent' = NoEvent /\ inbound' = NoMessage
    /\ UNCHANGED <<pipelineVars, host, client, storeVars, handleVars, nreq, left, kind, req,
                   session, loading, generateVars, clock, ghostVars>>

\* A pending load rejects, or the warm-up (its tokenizer call or its
\* generation) fails: the handler's catch.
InitializeFails(t) ==
    /\ pc[t] \in {"loadTokenizer", "loadModel", "warmup"}
    /\ pc' = [pc EXCEPT ![t] = "done"]
    /\ PostMessage(t, <<Event("initialize", "error", ErrorData("runtime error"))>>)
    /\ syncEvent' = NoEvent /\ inbound' = NoMessage
    /\ UNCHANGED <<pipelineVars, host, client, storeVars, handleVars, nreq, left, kind, req,
                   session, loading, generateVars, clock, ghostVars>>

-----------------------------------------------------------------------------
(* Session Store                                                           *)

\* sessionHistory.get(key), with NoSession for undefined
StoreEntry(key) ==
    IF sessionHistory[key] = 0 THEN NoSession ELSE heap[sessionHistory[key]]

\* InitialMessage as it would be if only an omitted systemMessage gave the
\* default.
InitialMessageUnlessOmitted(systemMessage) ==
    IF systemMessage # Absent
    THEN [role |-> "system", content |-> Text(systemMessage)]
    ELSE DEFAULT_SYSTEM_MESSAGE

\* `systemMessage ? { role: "system", content: systemMessage }
\*                : DEFAULT_SYSTEM_MESSAGE`
InitialMessage(systemMessage) ==
    IF Truthy(systemMessage)
    THEN [role |-> "system", content |-> Text(systemMessage)]
    ELSE DEFAULT_SYSTEM_MESSAGE

\* The SessionData getSession stores for a key that has none.
NewSession(systemMessage, now) ==
    [messages |-> <<InitialMessage(systemMessage)>>,
     pastKeyValues |-> 0,
     createdAt |-> now]

\* The object getSession(key, ...) returns to request t: the stored one, or
\* a new one (named after the request that creates it).
GetSession(key, t) ==
    IF sessionHistory[key] = 0 THEN t ELSE sessionHistory[key]

\* pipeline.getSessionInfo(key); NoInfo is null
NoInfo == [absent |-> TRUE]
GetSessionInfo(key) ==
    IF sessionHistory[key] = 0
    THEN NoInfo
    ELSE [messageCount |-> Len(heap[sessionHistory[key]].messages),
          createdAt |-> heap[sessionHistory[key]].createdAt,
          hasPastKeyValues |-> heap[sessionHistory[key]].pastKeyValues # 0]

\* Deleted as it would be if the session of a generateChat in progress
\* were kept.
DeletedUnlessInUse(key) ==
    IF \E t \in Tasks : /\ kind[t] = "generateChat"
                        /\ pc[t] = "generate"
                        /\ PipelineSessionId(req[t].sessionId) = key
    THEN sessionHistory
    ELSE [sessionHistory EXCEPT ![key] = 0]

\* Deleted as it would be if clearSession removed nothing.
DeletedNothing(key) == sessionHistory

\* sessionHistory after pipeline.clearSession(key)
Deleted(key) == [sessionHistory EXCEPT ![key] = 0]

-----------------------------------------------------------------------------
(* generateChat, generateSingle, _generate                                 *)

\* Initialized as it would be if only the tokenizer were looked at.
InitializedByTokenizer == tokenizer # NotLoaded

\* `!this.model || !this.tokenizer` is false
Initialized == model # NotLoaded /\ tokenizer # NotLoaded

UserMessage(text) == [role |-> "user", content |-> Text(text)]
AssistantMessage(text) == [role |-> "assistant", content |-> text]

\* What generateChat pushes before it calls _generate.
Pushed(messages, message) == Append(messages, UserMessage(message))

\* SingleMessages as it would be if the default system message were used
\* when the request supplies none.
SingleMessagesWithDefault(systemMessage, prompt) ==
    <<IF Truthy(systemMessage)
      THEN [role |-> "system", content |-> Text(systemMessage)]
      ELSE DEFAULT_SYSTEM_MESSAGE,
      [role |-> "user", content |-> Text(prompt)]>>

\* The message array generateSingle builds.
SingleMessages(systemMessage, prompt) ==
    (IF Truthy(systemMessage)
     THEN <<[role |-> "system", content |-> Text(systemMessage)]>>
     ELSE <<>>) \o <<UserMessage(prompt)>>

\* The start events of the two handlers.
ChatStart(sessionId) ==
    Event("generateChat", "start", [sessionId |-> HandlerSessionId(sessionId)])
SingleStart == Event("generateSingle", "start", [none |-> TRUE])

\* Generate as it would be if one handle were allocated for the slot and
\* reused by the later calls.
GenerateReusingHandle(t, messages, pastKeyValues, generationConfig, ok, posted) ==
    IF ok
    THEN /\ input' = [input EXCEPT ![t] = messages]
         /\ settings' = [settings EXCEPT ![t] = Spread(config, generationConfig)]
         /\ pkvIn' = [pkvIn EXCEPT ![t] = pastKeyValues]
         /\ numTokens' = [numTokens EXCEPT ![t] = 0]
         /\ generatedText' = [generatedText EXCEPT ![t] = <<>>]
         /\ currentStoppingCriteria' =
                IF currentStoppingCriteria = 0 THEN t ELSE currentStoppingCriteria
         /\ pc' = [pc EXCEPT ![t] = "generate"]
         /\ PostMessage(t, posted)
    ELSE /\ pc' = [pc EXCEPT ![t] = "done"]
         /\ PostMessage(t, posted \o
                <<Event(kind'[t], "error", ErrorData("runtime error"))>>)
         /\ UNCHANGED <<generateVars, currentStoppingCriteria>>

\* _generate up to its await of model.generate, for request t with these
\* messages, this cache and `{ ...this.config, ...generationConfig }`:
\* apply_chat_template returns (ok) or throws.
Generate(t, messages, pastKeyValues, generationConfig, ok, posted) ==
    IF ok
    THEN /\ input' = [input EXCEPT ![t] = messages]
         /\ settings' = [settings EXCEPT ![t] = Spread(config, generationConfig)]
         /\ pkvIn' = [pkvIn EXCEPT ![t] = pastKeyValues]
         /\ numTokens' = [numTokens EXCEPT ![t] = 0]
         /\ generatedText' = [generatedText EXCEPT ![t] = <<>>]
         /\ currentStoppingCriteria' = t
         /\ pc' = [pc EXCEPT ![t] = "generate"]
         /\ PostMessage(t, posted)
    ELSE /\ pc' = [pc EXCEPT ![t] = "done"]
         /\ PostMessage(t, posted \o
                <<Event(kind'[t], "error", ErrorData("runtime error"))>>)
         /\ UNCHANGED <<generateVars, currentStoppingCriteria>>

\* Reject as it would be if the handler checked before it posted start.
RejectWithoutStart(t, posted) ==
    /\ pc' = [pc EXCEPT ![t] = "done"]
    /\ PostMessage(t, <<Event(kind'[t], "error", ErrorData(UNINITIALIZED))>>)
    /\ UNCHANGED <<storeVars, generateVars, currentStoppingCriteria,
                   session, clock, before, calls, prevDone>>

\* The rejection of a generation request while nothing is loaded.
Reject(t, posted) ==
    /\ pc' = [pc EXCEPT ![t] = "done"]
    /\ PostMessage(t, posted \o
            <<Event(kind'[t], "error", ErrorData(UNINITIALIZED))>>)
    /\ UNCHANGED <<storeVars, generateVars, currentStoppingCriteria,
                   session, clock, before, calls, prevDone>>

\* A generateChat message arrives: the handler runs up to the await of
\* model.generate.  now is Date.now() as getSession reads it.
ReqGenerateChat(sessionId, systemMessage, message, generationConfig, now, ok) ==
    LET t == nreq + 1
        key == PipelineSessionId(sessionId)
        obj == GetSession(key, t)
        got == IF sessionHistory[key] = 0
               THEN NewSession(systemMessage, now)
               ELSE heap[obj]
        pushed == [got EXCEPT !.messages = Pushed(@, message)]
    IN
    /\ left > 0
    /\ left' = left - 1
    /\ nreq' = t
    /\ kind' = [kind EXCEPT ![t] = "generateChat"]
    /\ req' = [req EXCEPT ![t] = [NoRequest EXCEPT !.sessionId = sessionId,
                                   !.systemMessage = systemMessage,
                                   !.message = message,
                                   !.config = generationConfig]]
    /\ IF ~Initialized
       THEN /\ ok /\ now = clock
            /\ Reject(t, <<ChatStart(sessionId)>>)
       ELSE /\ IF sessionHistory[key] = 0 THEN Now(now) ELSE now = clock
            /\ clock' = now
            /\ sessionHistory' = [sessionHistory EXCEPT ![key] = obj]
            /\ heap' = [heap EXCEPT ![obj] = pushed]
            /\ session' = [session EXCEPT ![t] = obj]
            /\ before' = [before EXCEPT ![t] = StoreEntry(key)]
            /\ calls' = [calls EXCEPT ![key] =
                            IF sessionHistory[key] = 0 THEN 1 ELSE @ + 1]
            /\ prevDone' = [prevDone EXCEPT ![t] = lastDone[key]]
            /\ Generate(t, pushed.messages, pushed.pastKeyValues,
                        generationConfig, ok, <<ChatStart(sessionId)>>)
    /\ syncEvent' = NoEvent /\ inbound' = NoMessage
    /\ UNCHANGED <<pipelineVars, host, client, interrupted, loading, lastClear, lastDone,
                   cleared>>

\* A generateSingle message arrives.
ReqGenerateSingle(systemMessage, prompt, generationConfig, ok) ==
    LET t == nreq + 1 IN
    /\ left > 0
    /\ left' = left - 1
    /\ nreq' = t
    /\ kind' = [kind EXCEPT ![t] = "generateSingle"]
    /\ req' = [req EXCEPT ![t] = [NoRequest EXCEPT
                                   !.systemMessage = systemMessage,
                                   !.message = prompt,
                                   !.config = generationConfig]]
    /\ IF ~Initialized
       THEN /\ ok
            /\ Reject(t, <<SingleStart>>)
       ELSE /\ Generate(t, SingleMessages(systemMessage, prompt), 0,
                        generationConfig, ok, <<SingleStart>>)
            /\ UNCHANGED <<storeVars, session, clock, before, calls, prevDone>>
    /\ syncEvent' = NoEvent /\ inbound' = NoMessage
    /\ UNCHANGED <<pipelineVars, host, client, interrupted, loading, lastClear, lastDone,
                   cleared>>

\* model.generate of request t is pending.
Generating(t) == pc[t] = "generate"

\* RateObserved as it would be if the first token were reported too.
RateObservedFromFirst(n) == n >= 0

\* `numTokens++ > 0 && tokenCallback`, n being numTokens before the
\* increment (the handlers always pass a tokenCallback).
RateObserved(n) == n > 0

\* tokenCallbackFunction, as it reports to the handler's tokenCallback.
TokenEvents(t) ==
    IF RateObserved(numTokens[t])
    THEN <<Event(kind[t], "token_stats", [tokenCount |-> numTokens[t] + 1])>>
    ELSE <<>>

\* Streamed as it would be if the calls in progress shared one buffer.
RECURSIVE TextInProgress(_)
TextInProgress(t) ==
    IF t = 0 THEN <<>>
    ELSE TextInProgress(t - 1) \o
            (IF pc[t] = "generate" THEN generatedText[t] ELSE <<>>)
StreamedShared(text, output) == TextInProgress(MaxReq + 1) \o output

\* streamCallbackFunction(output), as it changes generatedText and as it
\* reports to the handler's streamCallback.
Streamed(text, output) == text \o output
StreamEvents(t, output, count) ==
    <<Event(kind[t], "streaming",
            [token |-> output,
             fullText |-> Streamed(generatedText[t], output),
             tokenCount |-> count])>>

\* The runtime emits a token: the streamer calls tokenCallbackFunction and
\* then streamCallbackFunction with the token's text.
Token(t) ==
    /\ Generating(t)
    /\ numTokens[t] < MaxTokens
    /\ numTokens' = [numTokens EXCEPT ![t] = @ + 1]
    /\ generatedText' = [generatedText EXCEPT ![t] =
            Streamed(@, Fragment(numTokens'[t]))]
    /\ PostMessage(t, TokenEvents(t) \o
            StreamEvents(t, Fragment(numTokens'[t]), numTokens'[t]))
    /\ syncEvent' = NoEvent /\ inbound' = NoMessage
    /\ UNCHANGED <<pipelineVars, host, client, storeVars, handleVars, nreq, left, kind, pc,
                   req, session, loading, input, pkvIn, settings, clock, ghostVars>>

\* s.split('assistant\n').pop()
AfterLastMarker(s) ==
    LET marks == {i \in DOMAIN s : s[i] = "M"}
        last == IF marks = {} THEN 0
                ELSE CHOOSE i \in marks : \A j \in marks : j <= i
    IN SubSeq(s, last + 1, Len(s))

\* s.trim()
Trim(s) ==
    LET ink == {i \in DOMAIN s : s[i] # " "} IN
    IF ink = {} THEN <<>>
    ELSE SubSeq(s, CHOOSE i \in ink : \A j \in ink : i <= j,
                   CHOOSE i \in ink : \A j \in ink : j <= i)

\* FinalText as it would be without the fall-back to the streamed text.
FinalTextNoFallback(decoded, streamed) == Trim(AfterLastMarker(decoded))

\* `decoded[0].split('assistant\n').pop()?.trim() || generatedText`
FinalText(decoded, streamed) ==
    IF Trim(AfterLastMarker(decoded)) # <<>>
    THEN Trim(AfterLastMarker(decoded))
    ELSE streamed

\* result.past_key_values of the generation of request t: a new cache,
\* named after the call that returned it.
ReturnedCache(t) == t

\* Completed as it would be if the returned cache were not stored.
CompletedWithoutCache(t, text) ==
    [heap[session[t]] EXCEPT !.messages = Append(@, AssistantMessage(text))]

\* The session object of request t after generateChat's last two statements.
Completed(t, text) ==
    [heap[session[t]] EXCEPT !.messages = Append(@, AssistantMessage(text)),
                             !.pastKeyValues = ReturnedCache(t)]

\* model.generate of a chat request resolves and batch_decode returns.
ChatReturns(t, decoded) ==
    LET key == PipelineSessionId(req[t].sessionId)
        text == FinalText(decoded, generatedText[t])
    IN
    /\ kind[t] = "generateChat"
    /\ Generating(t)
    /\ heap' = [heap EXCEPT ![session[t]] = Completed(t, text)]
    /\ pc' = [pc EXCEPT ![t] = "done"]
    /\ PostMessage(t, <<Event("generateChat", "complete",
                              [text |-> text,
                               sessionId |-> key,
                               messageCount |-> Len(heap'[session[t]].messages)])>>)
    /\ lastDone' = IF cleared[t] THEN lastDone
                   ELSE [lastDone EXCEPT ![key] = t]
    /\ syncEvent' = NoEvent /\ inbound' = NoMessage
    /\ UNCHANGED <<pipelineVars, host, client, sessionHistory, handleVars, nreq, left, kind, req,
                   session, loading, generateVars, clock, before, calls,
                   lastClear, prevDone, cleared>>

\* model.generate of a single request resolves and batch_decode returns.
SingleReturns(t, decoded) ==
    /\ kind[t] = "generateSingle"
    /\ Generating(t)
    /\ pc' = [pc EXCEPT ![t] = "done"]
    /\ PostMessage(t, <<Event("generateSingle", "complete",
                    [text |-> FinalText(decoded, generatedText[t])])>>)
    /\ syncEvent' = NoEvent /\ inbound' = NoMessage
    /\ UNCHANGED <<pipelineVars, host, client, storeVars, handleVars, nreq, left, kind, req,
                   session, loading, generateVars, clock, ghostVars>>

\* GenerationFails as it would be if the handler had no catch.
GenerationFailsUncaught(t) ==
    /\ Generating(t)
    /\ pc' = [pc EXCEPT ![t] = "done"]
    /\ syncEvent' = NoEvent /\ inbound' = NoMessage
    /\ UNCHANGED <<pipelineVars, host, client, storeVars, handleVars, nreq, left, kind,
                   req, session, loading, generateVars, events, clock, ghostVars>>

\* model.generate rejects, or it resolves and batch_decode throws: the
\* handler's catch.
GenerationFails(t) ==
    /\ Generating(t)
    /\ pc' = [pc EXCEPT ![t] = "done"]
    /\ PostMessage(t, <<Event(kind[t], "error", ErrorData("runtime error"))>>)
    /\ syncEvent' = NoEvent /\ inbound' = NoMessage
    /\ UNCHANGED <<pipelineVars, host, client, storeVars, handleVars, nreq, left, kind, req,
                   session, loading, generateVars, clock, ghostVars>>

-----------------------------------------------------------------------------
(* The handlers that await nothing                                         *)

\* Interrupt as it would be if interrupt() did not test the slot: on null
\* the call throws and the handler's catch posts the error.
InterruptUnchecked ==
    /\ interrupted' = IF currentStoppingCriteria # 0
                      THEN [interrupted EXCEPT ![currentStoppingCriteria] = TRUE]
                      ELSE interrupted
    /\ inbound' = "interrupt"
    /\ syncEvent' = IF currentStoppingCriteria # 0
                    THEN Event("interrupt", "success",
                               [message |-> "Generation interrupted"])
                    ELSE Event("interrupt", "error", ErrorData("runtime error"))
    /\ UNCHANGED <<pipelineVars, host, client, storeVars, currentStoppingCriteria, nreq, left,
                   kind, pc, req, session, loading, generateVars, events,
                   clock, ghostVars>>

\* Interrupt as it would be if every handle in use were signalled.
InterruptAll ==
    /\ interrupted' = [t \in Tasks |-> interrupted[t] \/ Generating(t)]
    /\ inbound' = "interrupt"
    /\ syncEvent' = Event("interrupt", "success",
                          [message |-> "Generation interrupted"])
    /\ UNCHANGED <<pipelineVars, host, client, storeVars, currentStoppingCriteria, nreq, left,
                   kind, pc, req, session, loading, generateVars, events,
                   clock, ghostVars>>

\* Interrupt as it would be if no handle were signalled.
InterruptNothing ==
    /\ interrupted' = interrupted
    /\ inbound' = "interrupt"
    /\ syncEvent' = Event("interrupt", "success",
                          [message |-> "Generation interrupted"])
    /\ UNCHANGED <<pipelineVars, host, client, storeVars, currentStoppingCriteria, nreq, left,
                   kind, pc, req, session, loading, generateVars, events,
                   clock, ghostVars>>

\* interrupt: pipeline.interrupt() and the success event
Interrupt ==
    /\ interrupted' = IF currentStoppingCriteria # 0
                      THEN [interrupted EXCEPT ![currentStoppingCriteria] = TRUE]
                      ELSE interrupted
    /\ inbound' = "interrupt"
    /\ syncEvent' = Event("interrupt", "success",
                          [message |-> "Generation interrupted"])
    /\ UNCHANGED <<pipelineVars, host, client, storeVars, currentStoppingCriteria, nreq, left,
                   kind, pc, req, session, loading, generateVars, events,
                   clock, ghostVars>>

\* clearSession, handled at time now
ClearSession(sessionId, now) ==
    LET key == HandlerSessionId(sessionId) IN
    /\ Now(now)
    /\ clock' = now
    /\ sessionHistory' = Deleted(key)
    /\ inbound' = "clearSession"
    /\ syncEvent' = Event("clearSession", "success",
                          [sessionId |-> key, message |-> "Session cleared"])
    /\ lastClear' = [lastClear EXCEPT ![key] = now]
    /\ lastDone' = [lastDone EXCEPT ![key] = 0]
    /\ cleared' = [t \in Tasks |->
                    IF /\ kind[t] = "generateChat"
                       /\ Generating(t)
                       /\ PipelineSessionId(req[t].sessionId) = key
                    THEN TRUE ELSE cleared[t]]
    /\ UNCHANGED <<pipelineVars, host, client, heap, handleVars, nreq, left, kind, pc, req,
                   session, loading, generateVars, events, before, calls,
                   prevDone>>

\* getSessionInfo
ReqGetSessionInfo(sessionId) ==
    LET key == HandlerSessionId(sessionId) IN
    /\ inbound' = "getSessionInfo"
    /\ syncEvent' = Event("getSessionInfo", "success",
                          [sessionId |-> key, info |-> GetSessionInfo(key)])
    /\ UNCHANGED <<pipelineVars, host, client, storeVars, handleVars, nreq, left, kind, pc, req,
                   session, loading, generateVars, events, clock, ghostVars>>

\* getModels
GetModels ==
    /\ inbound' = "getModels"
    /\ syncEvent' = Event("getModels", "success", [models |-> DEFAULT_MODELS])
    /\ UNCHANGED <<pipelineVars, host, client, storeVars, handleVars, nreq, left, kind, pc,
                   req, session, loading, generateVars, events, clock, ghostVars>>

-----------------------------------------------------------------------------
(* check, checkWebGPUSupport                                               *)

NO_GPU == "WebGPU is not supported in this browser"
NO_ADAPTER == "WebGPU is not supported (no adapter found)"

\* What requestAdapter may do: resolve with an adapter, resolve with null,
\* or throw.
AdapterOutcomes == {"adapter", "null", "throws"}

\* CheckWebGPUSupport as it would be without the test of the adapter.
CheckWebGPUSupportAnyAdapter(h) ==
    IF ~h.gpu THEN [supported |-> FALSE, error |-> NO_GPU]
    ELSE IF h.adapter = "throws" THEN [supported |-> FALSE, error |-> "runtime error"]
    ELSE [supported |-> TRUE, error |-> Absent]

\* The result of checkWebGPUSupport on a host that answers h.
CheckWebGPUSupport(h) ==
    IF ~h.gpu THEN [supported |-> FALSE, error |-> NO_GPU]
    ELSE IF h.adapter = "throws" THEN [supported |-> FALSE, error |-> "runtime error"]
    ELSE IF h.adapter = "null" THEN [supported |-> FALSE, error |-> NO_ADAPTER]
    ELSE [supported |-> TRUE, error |-> Absent]

\* What the check handler posts for a result of checkWebGPUSupport.
CheckEvent(support) ==
    IF support.supported
    THEN Event("check", "success", [webgpuSupported |-> TRUE])
    ELSE Event("check", "error", ErrorData(support.error))

\* A check message arrives: without navigator.gpu the probe answers at
\* once, with it the handler is suspended in requestAdapter.
ReqCheck(gpu) ==
    LET t == nreq + 1
        h == [NoHost EXCEPT !.gpu = gpu]
    IN
    /\ left > 0
    /\ left' = left - 1
    /\ nreq' = t
    /\ kind' = [kind EXCEPT ![t] = "check"]
    /\ host' = [host EXCEPT ![t] = h]
    /\ IF gpu
       THEN /\ pc' = [pc EXCEPT ![t] = "requestAdapter"]
            /\ UNCHANGED events
       ELSE /\ pc' = [pc EXCEPT ![t] = "done"]
            /\ PostMessage(t, <<CheckEvent(CheckWebGPUSupport(h))>>)
    /\ syncEvent' = NoEvent /\ inbound' = NoMessage
    /\ UNCHANGED <<pipelineVars, client, storeVars, handleVars, req, session, loading,
                   generateVars, clock, ghostVars>>

\* requestAdapter settles.
AdapterReturns(t, outcome) ==
    LET h == [host[t] EXCEPT !.adapter = outcome] IN
    /\ pc[t] = "requestAdapter"
    /\ host' = [host EXCEPT ![t] = h]
    /\ pc' = [pc EXCEPT ![t] = "done"]
    /\ PostMessage(t, <<CheckEvent(CheckWebGPUSupport(h))>>)
    /\ syncEvent' = NoEvent /\ inbound' = NoMessage
    /\ UNCHANGED <<pipelineVars, client, storeVars, handleVars, nreq, left, kind, req,
                   session, loading, generateVars, clock, ghostVars>>

-----------------------------------------------------------------------------
(* The message listener                                                    *)

\* The keys of the messageHandlers object literal.
OwnHandlers == {"check", "initialize", "generateChat", "generateSingle",
                "interrupt", "clearSession", "getSessionInfo", "getModels"}

\* Properties the object literal inherits from Object.prototype; both are
\* functions that post nothing.
InheritedProperties == {"constructor", "toString"}

\* Message types that name no handler.
OtherTypeInputs == {"frobnicate", "error", "constructor", "toString"}

\* `messageHandlers[type]` is truthy.
HandlerFound(type) == type \in OwnHandlers \cup InheritedProperties

\* The error data of the listener's else branch; the text posted is error
\* followed by type.
UnknownType(type) == [error |-> "Unknown message type: ", type |-> type]

\* A message arrives whose type is not a key of messageHandlers.
OtherMessage(type) ==
    /\ type \notin OwnHandlers
    /\ inbound' = type
    /\ syncEvent' = IF HandlerFound(type) THEN NoEvent
                    ELSE Event("error", "error", UnknownType(type))
    /\ UNCHANGED <<pipelineVars, host, client, storeVars, handleVars, nreq, left, kind, pc,
                   req, session, loading, generateVars, events, clock, ghostVars>>

-----------------------------------------------------------------------------
(* The UI client (main.ts)                                                 *)

\* What the user may have typed into the message input.
ClientTexts == {"", "Hello"}

\* `let currentSessionId = 'default'`; nothing assigns it again.
currentSessionId == "default"

\* The generationConfig sendMessage sends.
ClientGenerationConfig ==
    [NoConfig EXCEPT !["max_new_tokens"] = "512",
                     !["temperature"] = "0.7",
                     !["top_p"] = "0.9"]

\* The value of the model select: its first option.
ClientModel == [type |-> "string", value |-> "smollm2-360m"]

\* handleModelInit and handleChatGeneration, on the flags and the controls
\* of client state c; the other events change none of them.
HandleEvent(c, ev) ==
    CASE ev.type = "initialize" /\ ev.status = "loading" ->
            [c EXCEPT !.loadDisabled = TRUE]
      [] ev.type = "initialize" /\ ev.status = "ready" ->
            [c EXCEPT !.loadDisabled = FALSE,
                      !.isModelLoaded = TRUE,
                      !.inputDisabled = FALSE,
                      !.sendDisabled = FALSE]
      [] ev.type = "initialize" /\ ev.status = "error" ->
            [c EXCEPT !.loadDisabled = FALSE]
      [] ev.type = "generateChat" /\ ev.status = "start" ->
            [c EXCEPT !.sendDisabled = TRUE]
      [] ev.type = "generateChat" /\ ev.status \in {"complete", "error"} ->
            [c EXCEPT !.sendDisabled = FALSE]
      [] OTHER -> c

\* worker.onmessage handles the next event of request t.  The events of one
\* request are handled in the order they were posted.
OnMessage(t) ==
    /\ client.handled[t] < Len(events[t])
    /\ client' = [HandleEvent(client, events[t][client.handled[t] + 1])
                    EXCEPT !.handled[t] = @ + 1]
    /\ syncEvent' = NoEvent /\ inbound' = NoMessage
    /\ UNCHANGED <<pipelineVars, host, storeVars, handleVars, nreq, left, kind, pc,
                   req, session, loading, generateVars, events, clock, ghostVars>>

\* A click on the Load button; a disabled button gets no click.  The worker
\* handles the message posted.
ClickLoad ==
    /\ ~client.loadDisabled
    /\ ReqInitialize(ClientModel)

\* sendMessage with this text in the message input: it returns at once
\* when the text is empty or isModelLoaded is false, and posts generateChat
\* otherwise, which the worker handles.
SendMessage(text, now, ok) ==
    /\ Trim(Text(text)) # Text("")
    /\ client.isModelLoaded
    /\ ReqGenerateChat(currentSessionId, Absent, text, ClientGenerationConfig,
                       now, ok)

\* A click on the Send button.
ClickSend(text, now, ok) ==
    /\ ~client.sendDisabled
    /\ SendMessage(text, now, ok)

\* The Enter key in the message input; a disabled input gets no key.
PressEnter(text, now, ok) ==
    /\ ~client.inputDisabled
    /\ SendMessage(text, now, ok)

\* A click on the Clear button, which is never disabled.
ClickClear(now) ==
    /\ client.isModelLoaded
    /\ ClearSession(currentSessionId, now)

-----------------------------------------------------------------------------
\* The steps of initialize requests.
NextInitialize ==
    \/ \E m \in ModelInputs : ReqInitialize(m)
    \/ \E t \in Tasks : TokenizerLoaded(t)
    \/ \E t \in Tasks, n \in LoadedInputs : ModelProgress(t, n)
    \/ \E t \in Tasks : ModelLoaded(t)
    \/ \E t \in Tasks : WarmUpDone(t)
    \/ \E t \in Tasks : InitializeFails(t)

\* The steps of generateChat and generateSingle requests.
NextGenerate ==
    \/ \E s \in SessionIdInputs, y \in SystemInputs, m \in MessageInputs,
          now \in 0..MaxClock, ok \in BOOLEAN :
          ReqGenerateChat(s, y, m, GenerationConfig(y), now, ok)
    \/ \E y \in SystemInputs, m \in MessageInputs, ok \in BOOLEAN :
          ReqGenerateSingle(y, m, GenerationConfig(y), ok)
    \/ \E t \in Tasks : Token(t)
    \/ \E t \in Tasks, d \in DecodedOutputs : ChatReturns(t, d)
    \/ \E t \in Tasks, d \in DecodedOutputs : SingleReturns(t, d)
    \/ \E t \in Tasks : GenerationFails(t)

\* The requests on the Session Store.
NextStore ==
    \/ \E s \in SessionIdInputs, now \in 0..MaxClock : ClearSession(s, now)
    \/ \E s \in SessionIdInputs : ReqGetSessionInfo(s)

\* The check, getModels and unrecognized messages.
NextProtocol ==
    \/ \E gpu \in BOOLEAN : ReqCheck(gpu)
    \/ \E t \in Tasks, o \in AdapterOutcomes : AdapterReturns(t, o)
    \/ GetModels
    \/ \E type \in OtherTypeInputs : OtherMessage(type)

Next == NextInitialize \/ NextGenerate \/ NextStore \/ Interrupt \/ NextProtocol

\* The worker after one initialize request for the preset smollm2-360m has
\* loaded tokenizer and model, warmed up and posted ready.
Ready ==
    LET info == DEFAULT_MODELS["smollm2-360m"] IN
    /\ tokenizer = info.id
    /\ model = info.id
    /\ modelInfo = info
    /\ config = DEFAULT_GENERATION_CONFIG
    /\ sessionHistory = [k \in SessionKeys |-> 0]
    /\ heap = [o \in Tasks |-> NoSession]
    /\ currentStoppingCriteria = 0
    /\ interrupted = [t \in Tasks |-> FALSE]
    /\ nreq = 1
    /\ left = MaxReq
    /\ kind = [t \in Tasks |-> IF t = 1 THEN "initialize" ELSE "none"]
    /\ pc = [t \in Tasks |-> IF t = 1 THEN "done" ELSE "idle"]
    /\ req = [t \in Tasks |->
                IF t = 1 THEN [NoRequest EXCEPT !.model = "smollm2-360m"]
                ELSE NoRequest]
    /\ session = [t \in Tasks |-> 0]
    /\ loading = [t \in Tasks |-> IF t = 1 THEN info.id ELSE NotLoaded]
    /\ input = [t \in Tasks |-> <<>>]
    /\ pkvIn = [t \in Tasks |-> 0]
    /\ numTokens = [t \in Tasks |-> 0]
    /\ generatedText = [t \in Tasks |-> <<>>]
    /\ settings = [t \in Tasks |-> NoConfig]
    /\ host = [t \in Tasks |-> NoHost]
    /\ client = NoClient
    /\ events = [t \in Tasks |->
                IF t = 1
                THEN <<LoadingEvent,
                       Event("initialize", "ready", [modelInfo |-> info])>>
                ELSE <<>>]
    /\ syncEvent = NoEvent
    /\ inbound = NoMessage
    /\ clock = 0
    /\ before = [t \in Tasks |-> NoSession]
    /\ calls = [k \in SessionKeys |-> 0]
    /\ lastClear = [k \in SessionKeys |-> -1]
    /\ lastDone = [k \in SessionKeys |-> 0]
    /\ prevDone = [t \in Tasks |-> 0]
    /\ cleared = [t \in Tasks |-> FALSE]

\* The worker from its construction.
Spec == Init /\ [][Next]_vars

\* Generation and Session Store requests to the worker, from the moment its
\* first initialize has succeeded.
NextSession == NextGenerate \/ NextStore
SpecSession == Ready /\ [][NextSession]_vars

\* Generation and interrupt requests to the worker, from the same moment.
NextInterrupt == NextGenerate \/ Interrupt
SpecInterrupt == Ready /\ [][NextInterrupt]_vars

\* Every systemMessage a generateChat request may carry: none, the empty
\* string, a text.
SystemInputsOfChat == SystemInputs \cup {""}

\* What batch_decode may return for a chat turn: also a text with the
\* prompt's own markers before the last one and white space around the
\* answer.
DecodedOutputsOfChat ==
    DecodedOutputs \cup {<<"u", "M", "x", "M", " ", "o", " ", "k", " ">>}

\* generateChat requests with every kind of systemMessage and of decoded
\* output, and clearSession, from the same moment.
NextGetSession ==
    \/ \E s \in SessionIdInputs, y \in SystemInputsOfChat, m \in MessageInputs,
          now \in 0..MaxClock, ok \in BOOLEAN :
          ReqGenerateChat(s, y, m, GenerationConfig(y), now, ok)
    \/ \E t \in Tasks : Token(t)
    \/ \E t \in Tasks, d \in DecodedOutputsOfChat : ChatReturns(t, d)
    \/ \E t \in Tasks : GenerationFails(t)
    \/ \E s \in SessionIdInputs, now \in 0..MaxClock : ClearSession(s, now)
SpecGetSession == Ready /\ [][NextGetSession]_vars

\* Every kind of sessionId a request may carry: none, the empty string, a
\* non-empty string.
SessionIdInputsOfStore == SessionIdInputs \cup {"s1"}

\* generateChat, clearSession and getSessionInfo requests with every kind of
\* sessionId, from the same moment; the generations end without a token.
NextResolve ==
    \/ \E s \in SessionIdInputsOfStore, m \in MessageInputs, now \in 0..MaxClock,
          ok \in BOOLEAN :
          ReqGenerateChat(s, Absent, m, GenerationConfig(Absent), now, ok)
    \/ \E t \in Tasks, d \in DecodedOutputs : ChatReturns(t, d)
    \/ \E t \in Tasks : GenerationFails(t)
    \/ \E s \in SessionIdInputsOfStore, now \in 0..MaxClock : ClearSession(s, now)
    \/ \E s \in SessionIdInputsOfStore : ReqGetSessionInfo(s)
SpecResolve == Ready /\ [][NextResolve]_vars

\* The UI client and the worker, from the moment the worker has posted the
\* ready event of the client's first initialize; the client has handled
\* none of its events yet.
NextClient ==
    \/ \E t \in Tasks : OnMessage(t)
    \/ ClickLoad
    \/ \E text \in ClientTexts, now \in 0..MaxClock, ok \in BOOLEAN :
          ClickSend(text, now, ok)
    \/ \E text \in ClientTexts, now \in 0..MaxClock, ok \in BOOLEAN :
          PressEnter(text, now, ok)
    \/ \E now \in 0..MaxClock : ClickClear(now)
    \/ \E t \in Tasks : WarmUpDone(t)
    \/ \E t \in Tasks : InitializeFails(t)
    \/ \E t \in Tasks : Token(t)
    \/ \E t \in Tasks, d \in DecodedOutputs : ChatReturns(t, d)
    \/ \E t \in Tasks : GenerationFails(t)
SpecClient == Ready /\ [][NextClient]_vars

\* The external call that request t awaits returns or throws: the tokenizer
\* or model load, the warm-up, the generation with its decode, the adapter
\* query.
Returns(t) ==
    \/ TokenizerLoaded(t)
    \/ ModelLoaded(t)
    \/ WarmUpDone(t)
    \/ InitializeFails(t)
    \/ \E d \in DecodedOutputs : ChatReturns(t, d)
    \/ \E d \in DecodedOutputs : SingleReturns(t, d)
    \/ GenerationFails(t)
    \/ \E o \in AdapterOutcomes : AdapterReturns(t, o)

\* The worker from its construction, when every call into the external
\* collaborators eventually returns or throws and the event loop then runs
\* the continuation of the handler that awaited it.
SpecFair == Spec /\ \A t \in Tasks : WF_vars(Returns(t))

-----------------------------------------------------------------------------
(* Vocabulary of the properties                                            *)

ChatTasks == {t \in Tasks : kind[t] = "generateChat"}
SingleTasks == {t \in Tasks : kind[t] = "generateSingle"}
GenerationTasks == ChatTasks \cup SingleTasks
InitializeTasks == {t \in Tasks : kind[t] = "initialize"}

\* The Session Store key of chat request t.
KeyOf(t) == PipelineSessionId(req[t].sessionId)

Stored(k) == sessionHistory[k] # 0

\* A generateChat on key k is in flight.
InFlight(k) == \E t \in ChatTasks : Generating(t) /\ KeyOf(t) = k

Last(s) == s[Len(s)]
Front(s) == SubSeq(s, 1, Len(s) - 1)
Statuses(es) == [i \in DOMAIN es |-> es[i].status]

\* Request t has ended with this status.
Ended(t, status) ==
    pc[t] = "done" /\ events[t] # <<>> /\ Last(events[t]).status = status

\* Chat request t was accepted and then failed in the runtime (template,
\* generate or decode).
RuntimeFailed(t) ==
    /\ t \in ChatTasks
    /\ Ended(t, "error")
    /\ Last(events[t]).data # ErrorData(UNINITIALIZED)

\* No generateChat on key k has failed in the runtime.
NoFailureOn(k) == \A t \in Tasks : RuntimeFailed(t) => KeyOf(t) # k

-----------------------------------------------------------------------------
(* C1  Every stored session starts with a system message, and whenever no  *)
(* generateChat is in flight on its id it holds 1 + 2N messages, N being   *)
(* the number of generateChat calls made on the id since the session was   *)
(* created.                                                                *)
C1_LengthIsOnePlusTwoN ==
    \A k \in SessionKeys :
        Stored(k) =>
            /\ StoreEntry(k).messages[1].role = "system"
            /\ ~InFlight(k) => Len(StoreEntry(k).messages) = 1 + 2 * calls[k]

(* C2  In every reachable state every stored session starts with exactly   *)
(* one system message and then alternates user, assistant, user, ...       *)
(* Stated for the sessions on which no generateChat has failed, so that a  *)
(* violation does not rest on the user message a failed call leaves (C3).  *)
Alternates(messages) ==
    /\ Len(messages) >= 1
    /\ \A i \in DOMAIN messages :
        messages[i].role = IF i = 1 THEN "system"
                           ELSE IF i % 2 = 0 THEN "user" ELSE "assistant"

C2_MessagesAlternate ==
    \A k \in SessionKeys :
        (Stored(k) /\ NoFailureOn(k)) => Alternates(StoreEntry(k).messages)

(* C3  When a generateChat call fails in the runtime, the step that posts  *)
(* its error event leaves the session of its id (messages and cache) as it *)
(* was before the call.                                                    *)
C3_FailureLeavesSession ==
    [][\A t \in Tasks :
        (~RuntimeFailed(t) /\ RuntimeFailed(t)') =>
            StoreEntry(KeyOf(t))' = before'[t]]_vars

(* C4  A session's cache is null or is the cache returned by the           *)
(* generation whose input was the session's messages without their final   *)
(* assistant message; a session without an assistant message has a null   *)
(* cache.  Stated for the sessions on which no generateChat is in flight   *)
(* (while one is, its user message is not yet covered by any cache) and    *)
(* none has failed (C3).                                                   *)
CacheMatches(session_) ==
    IF session_.pastKeyValues = 0 THEN TRUE
    ELSE /\ Last(session_.messages).role = "assistant"
         /\ input[session_.pastKeyValues] = Front(session_.messages)

C4_CacheMatchesMessages ==
    \A k \in SessionKeys :
        (Stored(k) /\ ~InFlight(k) /\ NoFailureOn(k)) =>
            CacheMatches(StoreEntry(k))

\* C1 for the sessions on which no generateChat has failed.
C1_WithoutFailures ==
    \A k \in SessionKeys :
        (Stored(k) /\ NoFailureOn(k)) =>
            /\ StoreEntry(k).messages[1].role = "system"
            /\ ~InFlight(k) => Len(StoreEntry(k).messages) = 1 + 2 * calls[k]

(* C5  A generateChat call passes to the runtime the cache that was        *)
(* returned to the latest successful generateChat call on its session id   *)
(* (prevDone: the latest call completed on the id before this one arrived, *)
(* since the id was last cleared), and a null cache when there is none.    *)
C5_CacheRoundTrip ==
    \A t \in ChatTasks :
        (Generating(t) \/ Ended(t, "complete")) => pkvIn[t] = prevDone[t]

\* A second successful call on a session id has completed.
C5_Witness ==
    \E t \in ChatTasks :
        Ended(t, "complete") /\ prevDone[t] # 0 /\ pkvIn[t] = prevDone[t]

(* C6  No step of a generateSingle request changes what getSessionInfo     *)
(* returns for any id; the call passes a null cache and one user message,  *)
(* preceded by a system message only when the request supplies one.        *)
SingleStep(t) ==
    /\ kind'[t] = "generateSingle"
    /\ (pc'[t] # pc[t] \/ numTokens'[t] # numTokens[t])

C6_SingleLeavesStore ==
    [][\A t \in Tasks :
        SingleStep(t) =>
            /\ \A k \in SessionKeys : GetSessionInfo(k)' = GetSessionInfo(k)
            /\ pc'[t] = "generate" /\ pc[t] = "idle" =>
                /\ pkvIn'[t] = 0
                /\ Len(input'[t]) \in {1, 2}
                /\ Last(input'[t]) = [role |-> "user",
                                      content |-> <<req'[t].message>>]
                /\ Len(input'[t]) = 2 =>
                    /\ req'[t].systemMessage # Absent
                    /\ input'[t][1] =
                         [role |-> "system",
                          content |-> <<req'[t].systemMessage>>]]_vars

\* A generateSingle call has completed and one has failed while the store
\* holds a session with a cache.
C6_Witness ==
    /\ \E t \in SingleTasks : Ended(t, "complete") /\ Len(input[t]) = 2
    /\ \E k \in SessionKeys : Stored(k) /\ StoreEntry(k).pastKeyValues # 0

(* C7  The step of clearSession(id) posts success and leaves               *)
(* getSessionInfo(id) absent, changing nothing when id had no session; a   *)
(* step that creates the session of an id stores one system message (and   *)
(* the caller's user message), a null cache and a createdAt that is not    *)
(* earlier than the latest clearSession of the id.                         *)
C7_ClearThenFresh ==
    [][/\ \A k \in SessionKeys :
            (syncEvent'.type = "clearSession" /\ syncEvent'.data.sessionId = k) =>
                /\ syncEvent'.status = "success"
                /\ GetSessionInfo(k)' = NoInfo
                /\ ~Stored(k) => (sessionHistory' = sessionHistory /\ heap' = heap)
       /\ \A k \in SessionKeys :
            (sessionHistory[k] = 0 /\ sessionHistory'[k] # 0) =>
                /\ Len(StoreEntry(k)'.messages) = 2
                /\ StoreEntry(k)'.messages[1].role = "system"
                /\ StoreEntry(k)'.messages[2].role = "user"
                /\ StoreEntry(k)'.pastKeyValues = 0
                /\ StoreEntry(k)'.createdAt >= lastClear[k]]_vars

\* A session created after its id was cleared at a time later than 0.
C7_Witness ==
    \E k \in SessionKeys :
        Stored(k) /\ lastClear[k] >= 1 /\ StoreEntry(k).createdAt >= lastClear[k]

(* C8  A generateChat or generateSingle request that arrives while the     *)
(* model or the tokenizer is not loaded ends at once with start and an     *)
(* error event carrying the uninitialized message, and changes neither the *)
(* Session Store, nor the current cancellation handle, nor the pipeline.   *)
Arrives(t) == kind[t] = "none" /\ kind'[t] \in {"generateChat", "generateSingle"}

C8_UninitializedRejected ==
    [][\A t \in Tasks :
        (Arrives(t) /\ (model = NotLoaded \/ tokenizer = NotLoaded)) =>
            /\ pc'[t] = "done"
            /\ Statuses(events'[t]) = <<"start", "error">>
            /\ events'[t][2].type = kind'[t]
            /\ events'[t][2].data = [error |-> UNINITIALIZED]
            /\ sessionHistory' = sessionHistory
            /\ heap' = heap
            /\ currentStoppingCriteria' = currentStoppingCriteria
            /\ interrupted' = interrupted
            /\ <<tokenizer, model, modelInfo>>' = <<tokenizer, model, modelInfo>>]_vars

\* A generation request was rejected while the tokenizer was loaded and the
\* model was not.
C8_Witness ==
    \E t \in GenerationTasks :
        /\ Ended(t, "error")
        /\ Last(events[t]).data = [error |-> UNINITIALIZED]
        /\ tokenizer # NotLoaded
        /\ model = NotLoaded

(* C9  In a generation call that has emitted T tokens the token-rate       *)
(* observer was invoked T - 1 times (0 times when T <= 1), never for the   *)
(* first token, and its k-th invocation reported tokenCount = k + 1.       *)
TokenStats(es) == SelectSeq(es, LAMBDA e : e.status = "token_stats")

C9_RateObserver ==
    \A t \in GenerationTasks :
        /\ Len(TokenStats(events[t])) =
                IF numTokens[t] <= 1 THEN 0 ELSE numTokens[t] - 1
        /\ \A k \in DOMAIN TokenStats(events[t]) :
                TokenStats(events[t])[k].data.tokenCount = k + 1

\* A call has emitted the largest number of tokens and completed.
C9_Witness ==
    \E t \in GenerationTasks :
        /\ numTokens[t] = MaxTokens
        /\ Ended(t, "complete")
        /\ Len(TokenStats(events[t])) = MaxTokens - 1

(* C10  The events of a generateChat or generateSingle request are one     *)
(* start, then streaming and token_stats events, then one complete or      *)
(* error, after which the request posts nothing; those of an initialize    *)
(* request are one loading, then progress events, then one ready or error. *)
Ordered(es, first, middle, terminal, done) ==
    \/ es = <<>> /\ ~done
    \/ /\ es # <<>>
       /\ es[1].status = first
       /\ \A i \in 2..Len(es) :
            \/ es[i].status \in middle /\ (i = Len(es) => ~done)
            \/ es[i].status \in terminal /\ i = Len(es) /\ done

C10_EventOrder ==
    \A t \in Tasks :
        /\ \A i \in DOMAIN events[t] : events[t][i].type = kind[t]
        /\ t \in GenerationTasks =>
            Ordered(events[t], "start", {"streaming", "token_stats"},
                    {"complete", "error"}, pc[t] = "done")
        /\ t \in InitializeTasks =>
            Ordered(events[t], "loading", {"progress"},
                    {"ready", "error"}, pc[t] = "done")
        /\ (t \in GenerationTasks \cup InitializeTasks /\ pc[t] = "done") =>
                Len(events[t]) >= 2

\* A generation that streamed has completed, and an initialize that
\* reported progress has become ready.
C10_Witness ==
    /\ \E t \in GenerationTasks :
        Ended(t, "complete") /\ Len(events[t]) > 2
    /\ \E t \in InitializeTasks :
        Ended(t, "ready") /\ Len(events[t]) > 2

(* C11  A message whose type is not one of the eight request types gets    *)
(* exactly one event, of type error and status error and naming the type   *)
(* received, and changes nothing in the pipeline; also when the type is    *)
(* 'error' or the name of a property every object inherits.                *)
Unrecognized(type) == type \notin OwnHandlers \cup {NoMessage}

C11_UnknownTypeReported ==
    [][Unrecognized(inbound') =>
        /\ syncEvent'.type = "error"
        /\ syncEvent'.status = "error"
        /\ syncEvent'.data.type = inbound'
        /\ events' = events
        /\ pipelineVars' = pipelineVars
        /\ storeVars' = storeVars
        /\ handleVars' = handleVars]_vars

\* C11 for the types that are not the name of an inherited property.
C11_ExceptInherited ==
    [][(Unrecognized(inbound') /\ inbound' \notin InheritedProperties) =>
        /\ syncEvent' = Event("error", "error", UnknownType(inbound'))
        /\ events' = events
        /\ pipelineVars' = pipelineVars
        /\ storeVars' = storeVars
        /\ handleVars' = handleVars]_vars

(* C12  A request whose handler's call chain throws gets exactly one error *)
(* event, of the request's type and with a string description, as its last *)
(* event, and no success, ready or complete event; every request that has  *)
(* ended has exactly one such terminal event, error or not.  A handler     *)
(* that awaits nothing posts one event.                                    *)
ErrorTexts == {UNINITIALIZED, INVALID_MODEL, NO_GPU, NO_ADAPTER, "runtime error"}
TerminalStatuses == {"success", "ready", "complete", "error"}
Terminals(es) == SelectSeq(es, LAMBDA ev : ev.status \in TerminalStatuses)

\* The state records that the call chain of request t has thrown.
Thrown(t) ==
    \/ kind[t] = "check" /\ pc[t] = "done" /\ ~CheckWebGPUSupport(host[t]).supported
    \/ kind[t] = "initialize" /\ req[t].model \notin PresetNames \cup {"custom/model"}
    \/ kind[t] \in {"generateChat", "generateSingle"} /\ pc[t] = "done"
            /\ input[t] = <<>>

C12_ExceptionsCaught ==
    /\ \A t \in Tasks :
        /\ Len(Terminals(events[t])) = IF pc[t] = "done" THEN 1 ELSE 0
        /\ pc[t] = "done" =>
            /\ Last(events[t]).status \in TerminalStatuses
            /\ Last(events[t]).type = kind[t]
            /\ Last(events[t]).status = "error" =>
                    Last(events[t]).data.error \in ErrorTexts
        /\ Thrown(t) => Ended(t, "error")
    /\ syncEvent.status \in {"none", "success", "error"}

\* A check whose adapter query threw and a request that failed in the
\* runtime have both ended with their error event.
C12_Witness ==
    /\ \E t \in Tasks : kind[t] = "check" /\ host[t].adapter = "throws"
                        /\ Ended(t, "error")
    /\ \E t \in Tasks : kind[t] \in {"initialize", "generateSingle", "generateChat"}
                        /\ Ended(t, "error")
                        /\ Last(events[t]).data.error = "runtime error"

(* C13  An interrupt request handled when no generation has ever reached   *)
(* the runtime posts one interrupt event with status success, signals no   *)
(* handle and changes neither the Session Store nor the current-handle     *)
(* slot.                                                                   *)
Started(t) == kind[t] \in {"generateChat", "generateSingle"} /\ input[t] # <<>>

C13_InterruptWithoutGeneration ==
    [][(inbound' = "interrupt" /\ \A t \in Tasks : ~Started(t)) =>
        /\ syncEvent' = Event("interrupt", "success",
                              [message |-> "Generation interrupted"])
        /\ interrupted' = interrupted
        /\ currentStoppingCriteria' = currentStoppingCriteria
        /\ storeVars' = storeVars
        /\ events' = events]_vars

\* An interrupt was answered while the slot was still null, after a
\* generation request had been turned away.
C13_Witness ==
    /\ inbound = "interrupt"
    /\ syncEvent.status = "success"
    /\ currentStoppingCriteria = 0
    /\ \A t \in Tasks : ~interrupted[t]
    /\ \E t \in GenerationTasks : Ended(t, "error")

(* C14  A generation that reaches the runtime makes a fresh, unsignalled   *)
(* handle current; an interrupt signals the current handle only, and the   *)
(* current handle is that of the generation that started last, so once B   *)
(* has started after A no interrupt signals A's handle any more.           *)
C14_OneCurrentHandle ==
    [][/\ \A t \in Tasks :
            (~Started(t) /\ Started(t)') =>
                (currentStoppingCriteria' = t /\ ~interrupted'[t])
       /\ \A a \in Tasks :
            (~interrupted[a] /\ interrupted'[a]) =>
                /\ inbound' = "interrupt"
                /\ currentStoppingCriteria = a
                /\ \A b \in Tasks : (b > a) => ~Started(b)]_vars

\* B started while A was in flight, an interrupt has signalled B's handle
\* and A, still in flight, is not signalled.
C14_Witness ==
    \E a, b \in Tasks :
        /\ a < b
        /\ Generating(a) /\ Started(b)
        /\ interrupted[b] /\ ~interrupted[a]
        /\ currentStoppingCriteria = b

(* C15  An interrupt handled while generation G is in flight and no        *)
(* generation has started after G sets the signal on the handle G passed   *)
(* to the runtime and is answered with success.                            *)
C15_InterruptReachesLatest ==
    [][\A g \in Tasks :
        (/\ inbound' = "interrupt"
         /\ Generating(g)
         /\ \A t \in Tasks : (t > g) => ~Started(t)) =>
            /\ interrupted'[g]
            /\ syncEvent'.type = "interrupt"
            /\ syncEvent'.status = "success"]_vars

\* The generation in flight was signalled by the interrupt just handled,
\* after an earlier generation had finished.
C15_Witness ==
    \E g \in Tasks :
        /\ Generating(g) /\ interrupted[g]
        /\ inbound = "interrupt" /\ syncEvent.status = "success"
        /\ \E t \in Tasks : t < g /\ Started(t) /\ pc[t] = "done" /\ ~interrupted[t]

(* C16  The settings a generation passes to the runtime are, key by key,   *)
(* the value of the call's generationConfig when it has the key, else the  *)
(* value given with the latest initialize request when that has the key,   *)
(* else the process default.                                               *)
LatestInitialize ==
    CHOOSE i \in InitializeTasks : \A j \in InitializeTasks : j <= i

C16_SettingsResolved ==
    [][\A t \in Tasks :
        (~Started(t) /\ Started(t)') =>
            \A k \in ConfigKeys :
                settings'[t][k] =
                    IF req'[t].config[k] # Absent THEN req'[t].config[k]
                    ELSE IF req[LatestInitialize].config[k] # Absent
                         THEN req[LatestInitialize].config[k]
                    ELSE DEFAULT_GENERATION_CONFIG[k]]_vars

\* A generation runs with one key from its own override, one from
\* initialize and one from the defaults, and the override hid a value given
\* at initialize.
C16_Witness ==
    \E t \in Tasks :
        /\ Started(t)
        /\ settings[t]["max_new_tokens"] = "256"
        /\ config["max_new_tokens"] = "64"
        /\ settings[t]["temperature"] = "0.2"
        /\ settings[t]["top_p"] = "0.9"

(* C17  Within one initialize request every progress event carries a       *)
(* percentage from 0 to 100, the percentages of its successive progress    *)
(* events do not go down, and the request ends with ready when its loads   *)
(* and its warm-up succeed.                                                *)
Percentages(t) ==
    [i \in DOMAIN Progress(events[t]) |-> Progress(events[t])[i].data.percentage]

NonDecreasing(ps) == \A i, j \in DOMAIN ps : (i <= j) => ps[i] <= ps[j]

C17_ProgressMonotone ==
    \A t \in InitializeTasks :
        /\ \A i \in DOMAIN Percentages(t) : Percentages(t)[i] \in 0..100
        /\ NonDecreasing(Percentages(t))
        /\ (pc[t] = "done" /\ Last(events[t]).status # "error") =>
                Last(events[t]).status = "ready"

\* C17 while no second initialize request has been handled.
C17_SingleInitialize ==
    (Cardinality(InitializeTasks) <= 1) => C17_ProgressMonotone

(* C18  Whenever a model is loaded, pipeline.modelInfo is the descriptor   *)
(* the loaded weights were loaded from, and so is the modelInfo of every   *)
(* ready event posted since; also after a second initialize request that   *)
(* names another preset or descriptor.                                     *)
C18_DescriptorMatchesWeights ==
    model # NotLoaded =>
        /\ modelInfo.id = model
        /\ \A t \in InitializeTasks :
            Ended(t, "ready") => Last(events[t]).data.modelInfo.id = model

(* C19  A check request gets exactly one check event, posted when the      *)
(* probe has answered: success exactly when the host has navigator.gpu and *)
(* requestAdapter returned an adapter, and otherwise error with the        *)
(* probe's error text (also when requestAdapter threw); no step of a check *)
(* request changes the pipeline, the Session Store or the handle slot.     *)
CheckTasks == {t \in Tasks : kind[t] = "check"}
HostSupports(h) == h.gpu /\ h.adapter = "adapter"

C19_ProbeNeverThrows ==
    [][\A t \in Tasks :
        (kind'[t] = "check") =>
            /\ pc'[t] # "done" => events'[t] = <<>>
            /\ pc'[t] = "done" =>
                /\ Len(events'[t]) = 1
                /\ events'[t][1].type = "check"
                /\ events'[t][1].status =
                        IF HostSupports(host'[t]) THEN "success" ELSE "error"
                /\ ~HostSupports(host'[t]) =>
                        events'[t][1].data.error \in {NO_GPU, NO_ADAPTER, "runtime error"}
            /\ (pc'[t] # pc[t]) =>
                /\ pipelineVars' = pipelineVars
                /\ storeVars' = storeVars
                /\ handleVars' = handleVars]_vars

\* One check has succeeded and one has been answered with the error of a
\* null adapter.
C19_Witness ==
    /\ \E t \in CheckTasks : Ended(t, "success")
    /\ \E t \in CheckTasks : Ended(t, "error") /\ host[t].adapter = "null"

(* C20  When every call into the external collaborators eventually returns *)
(* or throws, every inbound request eventually receives exactly one        *)
(* terminal event (success, ready, complete or error): a request whose     *)
(* handler awaits nothing has it when the handler returns, a request whose *)
(* handler awaits an external call has it eventually, and no request ever  *)
(* has a second one.                                                       *)
Answered(t) == pc[t] = "done" /\ Len(Terminals(events[t])) = 1

C20_EveryRequestAnswered ==
    /\ [](inbound # NoMessage => syncEvent.status \in TerminalStatuses)
    /\ [](\A t \in Tasks : Len(Terminals(events[t])) <= 1)
    /\ \A t \in Tasks : (kind[t] # "none") ~> Answered(t)

\* C20 for the requests whose handler awaits an external call: each is
\* answered once, eventually.
C20_AwaitingRequestsAnswered ==
    /\ [](\A t \in Tasks : Len(Terminals(events[t])) <= 1)
    /\ \A t \in Tasks : (kind[t] # "none") ~> Answered(t)

\* C20 for the requests whose handler awaits nothing, except the messages
\* whose type names an inherited property: each is answered in the step that
\* handles it.
C20_ImmediateRequestsAnswered ==
    (inbound # NoMessage /\ inbound \notin InheritedProperties)
        => syncEvent.status \in TerminalStatuses

(* C21  The step in which generateChat calls getSession for an id that has *)
(* a session takes the stored session as it is: same object, same cache    *)
(* and createdAt, and the same messages followed by the user message of    *)
(* the call, whatever systemMessage the call supplies.  For an id without  *)
(* a session the new session's first and only message before the user      *)
(* message is the supplied systemMessage when that is a non-empty string,  *)
(* and the default system message otherwise.                               *)
\* Chat request t arrives while the pipeline is initialized.
AcceptedChat(t) ==
    /\ kind[t] = "none" /\ kind'[t] = "generateChat"
    /\ Initialized

NonEmptyString(s) == s \notin {Absent, ""}

C21_GetSession ==
    [][\A t \in Tasks, k \in SessionKeys :
        (AcceptedChat(t) /\ KeyOf(t)' = k) =>
            LET now_ == StoreEntry(k)' IN
            IF Stored(k)
            THEN /\ sessionHistory'[k] = sessionHistory[k]
                 /\ now_.messages =
                        Append(StoreEntry(k).messages, UserMessage(req'[t].message))
                 /\ now_.pastKeyValues = StoreEntry(k).pastKeyValues
                 /\ now_.createdAt = StoreEntry(k).createdAt
            ELSE /\ Len(now_.messages) = 2
                 /\ now_.messages[1].role = "system"
                 /\ now_.messages[1].content =
                        IF NonEmptyString(req'[t].systemMessage)
                        THEN <<req'[t].systemMessage>>
                        ELSE DEFAULT_SYSTEM_MESSAGE.content
                 /\ now_.messages[2] = UserMessage(req'[t].message)]_vars

\* A session created by a call whose systemMessage was the empty string has
\* taken a second call that supplied a text, and still starts with the
\* default system message.
C21_Witness ==
    \E t, u \in ChatTasks :
        /\ t < u
        /\ req[t].systemMessage = ""
        /\ req[u].systemMessage = "Be brief."
        /\ session[u] = session[t]
        /\ session[u] # 0
        /\ heap[session[u]].messages[1] = DEFAULT_SYSTEM_MESSAGE
        /\ Len(heap[session[u]].messages) >= 3

(* C22  A generateChat or clearSession request on id A leaves the          *)
(* messages, cache and createdAt of every session with an id other than A  *)
(* as they were, A being the sessionId the request carries ("default" when *)
(* it carries none); every other step changes no session; getSessionInfo   *)
(* for an id without a session reports absent and creates none.            *)
\* The session of id b is the same after the step as before it.
SameSession(b) ==
    /\ Stored(b)' <=> Stored(b)
    /\ StoreEntry(b)' = StoreEntry(b)

\* The step is a step of chat request t: its arrival, a token, its return.
ChatStep(t) ==
    /\ kind'[t] = "generateChat"
    /\ (pc'[t] # pc[t] \/ numTokens'[t] # numTokens[t])

ClearStep == syncEvent'.type = "clearSession"

\* What the steps that are not of a generateChat or a clearSession leave
\* alone, and what getSessionInfo reports for an id without a session.
OthersLeaveStore ==
    /\ (~ClearStep /\ \A t \in Tasks : ~ChatStep(t)) =>
            \A b \in SessionKeys : SameSession(b)
    /\ \A k \in SessionKeys :
            (syncEvent'.type = "getSessionInfo" /\ syncEvent'.data.sessionId = k) =>
                /\ sessionHistory' = sessionHistory
                /\ heap' = heap
                /\ ~Stored(k) => syncEvent'.data.info = NoInfo

C22_SessionsIsolated ==
    [][/\ \A t \in Tasks, b \in SessionKeys :
            (ChatStep(t) /\ b # KeyOf(t)') => SameSession(b)
       /\ \A s \in SessionIdInputs, now \in 0..MaxClock, b \in SessionKeys :
            (ClearSession(s, now) /\ b # PipelineSessionId(s)) => SameSession(b)
       /\ OthersLeaveStore]_vars

\* C22 with A the id the handler resolves the request's sessionId to.
C22_IsolatedAsResolved ==
    [][/\ \A t \in Tasks, b \in SessionKeys :
            (ChatStep(t) /\ b # KeyOf(t)') => SameSession(b)
       /\ \A s \in SessionIdInputs, now \in 0..MaxClock, b \in SessionKeys :
            (ClearSession(s, now) /\ b # HandlerSessionId(s)) => SameSession(b)
       /\ OthersLeaveStore]_vars

(* C23  In the step in which a generateChat request posts complete with    *)
(* {sessionId, messageCount}, the Session Store holds a session for that   *)
(* sessionId, getSessionInfo reports messageCount messages for it, and its *)
(* last message is the assistant message of this request; for the first    *)
(* turn on a session the request created, messageCount is 3.               *)
\* Chat request t posts complete in this step.
Completes(t) ==
    /\ kind[t] = "generateChat"
    /\ pc[t] = "generate"
    /\ Ended(t, "complete")'

\* What the claim says of the complete event ev of request t, in the state
\* that follows the step.
CompleteMatchesStore(t, ev, k) ==
    /\ Stored(k)
    /\ GetSessionInfo(k).messageCount = ev.data.messageCount
    /\ Last(StoreEntry(k).messages) = AssistantMessage(ev.data.text)
    /\ session[t] = t => ev.data.messageCount = 3

C23_CompleteMatchesStore ==
    [][\A t \in Tasks, k \in SessionKeys :
        (Completes(t) /\ Last(events'[t]).data.sessionId = k) =>
            CompleteMatchesStore(t, Last(events[t]), k)']_vars

\* C23 for the requests whose id was not cleared while they were in flight,
\* the count of 3 for those that no other call on the session overlapped.
C23_WithoutInterference ==
    [][\A t \in Tasks, k \in SessionKeys :
        (Completes(t) /\ ~cleared[t] /\ Last(events'[t]).data.sessionId = k) =>
            /\ Stored(k)'
            /\ GetSessionInfo(k)'.messageCount = Last(events'[t]).data.messageCount
            /\ Last(StoreEntry(k)'.messages) =
                    AssistantMessage(Last(events'[t]).data.text)
            /\ (session[t] = t /\ \A u \in Tasks \ {t} : session[u] # t) =>
                    Last(events'[t]).data.messageCount = 3]_vars

\* The first part of C23 alone: the store holds a session for the sessionId
\* of a complete event when it is posted.
C23_StoreHoldsSession ==
    [][\A t \in Tasks, k \in SessionKeys :
        (Completes(t) /\ Last(events'[t]).data.sessionId = k) => Stored(k)']_vars

(* C24  In the step in which a generateChat call succeeds, the session the *)
(* call holds gets one more message, the assistant message whose text is   *)
(* the text of the complete event, and its cache becomes the cache the     *)
(* runtime returned for this call; that text is what follows the last      *)
(* assistant-turn marker of the decoded output, without the white space    *)
(* around it, or the text streamed so far when nothing is left of it.      *)
\* r is s without the white space at its two ends.
IsTrimOf(r, s) ==
    \E i \in 1..(Len(s) + 1), j \in 0..Len(s) :
        /\ r = SubSeq(s, i, j)
        /\ \A n \in DOMAIN s : (n < i \/ n > j) => s[n] = " "
        /\ r # <<>> => (r[1] # " " /\ r[Len(r)] # " ")

\* r is what follows the last marker of s (all of s when it has none).
IsAfterLastMarker(r, s) ==
    \E i \in 0..Len(s) :
        /\ r = SubSeq(s, i + 1, Len(s))
        /\ i > 0 => s[i] = "M"
        /\ i = 0 => \A n \in DOMAIN s : s[n] # "M"
        /\ \A n \in DOMAIN r : r[n] # "M"

\* text is the text the claim describes for this decoded output.
IsReturnedText(text, decoded, streamed) ==
    \E tail \in {SubSeq(decoded, i, Len(decoded)) : i \in 1..(Len(decoded) + 1)} :
    \E r \in {SubSeq(tail, i, j) : i \in 1..(Len(tail) + 1), j \in 0..Len(tail)} :
        /\ IsAfterLastMarker(tail, decoded)
        /\ IsTrimOf(r, tail)
        /\ text = IF r = <<>> THEN streamed ELSE r

C24_TurnStored ==
    [][\A t \in Tasks, d \in DecodedOutputsOfChat :
        ChatReturns(t, d) =>
            LET ev == Last(events'[t]) IN
            /\ ev.status = "complete"
            /\ heap'[session[t]].messages =
                    Append(heap[session[t]].messages, AssistantMessage(ev.data.text))
            /\ heap'[session[t]].pastKeyValues = ReturnedCache(t)
            /\ heap'[session[t]].createdAt = heap[session[t]].createdAt
            /\ IsReturnedText(ev.data.text, d, generatedText[t])]_vars

\* One turn has completed with the trimmed text after the last of two
\* markers, and one with the streamed text because its decoded output held
\* only white space after the marker.
C24_Witness ==
    /\ \E t \in ChatTasks :
        /\ Ended(t, "complete")
        /\ Last(events[t]).data.text = <<"o", " ", "k">>
        /\ Last(heap[session[t]].messages) = AssistantMessage(<<"o", " ", "k">>)
        /\ heap[session[t]].pastKeyValues = t
    /\ \E t \in ChatTasks :
        /\ Ended(t, "complete")
        /\ generatedText[t] # <<>>
        /\ Last(events[t]).data.text = generatedText[t]

(* C25  In every streaming event of a generation call, fullText is the     *)
(* concatenation, in the order of emission, of the token fragments of the  *)
(* streaming events of that call up to and including this one, and         *)
(* tokenCount counts the tokens of that call alone, also when another      *)
(* generation call is in progress at the same time.                        *)
Streaming(es) == SelectSeq(es, LAMBDA ev : ev.status = "streaming")

RECURSIVE Concatenation(_, _)
Concatenation(es, n) ==
    IF n = 0 THEN <<>> ELSE Concatenation(es, n - 1) \o es[n].data.token

C25_FullTextPerCall ==
    \A t \in GenerationTasks :
        LET es == Streaming(events[t]) IN
        \A i \in DOMAIN es :
            /\ es[i].data.fullText = Concatenation(es, i)
            /\ es[i].data.tokenCount = i
            /\ es[i].data.tokenCount <= numTokens[t]

\* Two generation calls are in progress at the same time and each has
\* streamed all its tokens.
C25_Witness ==
    \E t, u \in GenerationTasks :
        /\ t < u
        /\ Generating(t) /\ Generating(u)
        /\ numTokens[t] = MaxTokens /\ numTokens[u] = MaxTokens
        /\ Last(events[t]).data.fullText = <<"a", "b">>
        /\ Last(events[u]).data.fullText = <<"a", "b">>

(* C26  A generateChat or generateSingle request that arrives before any   *)
(* initialize request has posted ready, also while an initialize is        *)
(* suspended in a load or in its warm-up generation, ends with the         *)
(* uninitialized error and never reaches the runtime's generate.           *)
ReadyPosted == \E t \in InitializeTasks : Ended(t, "ready")

C26_NoGenerationBeforeReady ==
    [][\A t \in Tasks :
        (Arrives(t) /\ ~ReadyPosted) =>
            /\ pc'[t] = "done"
            /\ Last(events'[t]).status = "error"
            /\ Last(events'[t]).data = [error |-> UNINITIALIZED]
            /\ input'[t] = <<>>]_vars

(* C27  When clearSession(id) was handled while a generateChat on id was   *)
(* in flight, no later step of that call changes the Session Store: the    *)
(* object it writes to is not the stored session of any id.  The id gets a *)
(* session again only by the arrival of a generateChat on it, and that     *)
(* session holds one system message, the user message of that call and a   *)
(* null cache, and is not the orphaned object.                             *)
\* The session objects of the calls whose id was cleared under them.
Orphans == {session[t] : t \in {u \in ChatTasks : cleared[u]}}

C27_OrphanNeverStored ==
    [][/\ \A t \in Tasks :
            (cleared[t] /\ ChatStep(t)) =>
                /\ sessionHistory' = sessionHistory
                /\ \A k \in SessionKeys : StoreEntry(k)' = StoreEntry(k)
       /\ \A k \in SessionKeys :
            (~Stored(k) /\ Stored(k)') =>
                /\ \E u \in Tasks : Arrives(u) /\ kind'[u] = "generateChat"
                                    /\ KeyOf(u)' = k
                /\ Len(StoreEntry(k)'.messages) = 2
                /\ StoreEntry(k)'.messages[1].role = "system"
                /\ StoreEntry(k)'.messages[2].role = "user"
                /\ StoreEntry(k)'.pastKeyValues = 0
                /\ sessionHistory'[k] \notin Orphans
       /\ \A k \in SessionKeys : sessionHistory'[k] \notin Orphans']_vars

\* A call whose id was cleared under it has completed, its object holds
\* its turn and its cache, and a later call on the id has a new session
\* with its own two messages and no cache.
C27_Witness ==
    \E t, u \in ChatTasks :
        /\ t < u
        /\ KeyOf(t) = KeyOf(u)
        /\ cleared[t]
        /\ Ended(t, "complete")
        /\ Len(heap[session[t]].messages) = 3
        /\ heap[session[t]].pastKeyValues = t
        /\ Generating(u)
        /\ sessionHistory[KeyOf(u)] = u
        /\ Len(StoreEntry(KeyOf(u)).messages) = 2
        /\ StoreEntry(KeyOf(u)).pastKeyValues = 0

(* C28  For every sessionId value a request may carry (none, the empty     *)
(* string, a non-empty string) the sessionId of the start event of a       *)
(* generateChat equals that of its complete event, and clearSession and    *)
(* getSessionInfo with that value act on the session that generateChat     *)
(* with that value uses; no sessionId means "default".                     *)
\* The id of the session that generateChat with sessionId value s uses.
UsedByChat(s) == PipelineSessionId(s)

C28_SameResolution ==
    [][/\ \A t \in Tasks :
            Completes(t) =>
                /\ events'[t][1].status = "start"
                /\ events'[t][1].data.sessionId = Last(events'[t]).data.sessionId
       /\ \A t \in Tasks :
            (AcceptedChat(t) /\ req'[t].sessionId = Absent) =>
                sessionHistory'["default"] = session'[t]
       /\ \A s \in SessionIdInputsOfStore, now \in 0..MaxClock :
            ClearSession(s, now) => ~Stored(UsedByChat(s))'
       /\ \A s \in SessionIdInputsOfStore :
            ReqGetSessionInfo(s) =>
                syncEvent'.data.info = GetSessionInfo(UsedByChat(s))]_vars

\* C28 for the sessionId values other than the empty string.
C28_ExceptEmptyString ==
    [][/\ \A t \in Tasks :
            (Completes(t) /\ req[t].sessionId # "") =>
                /\ events'[t][1].status = "start"
                /\ events'[t][1].data.sessionId = Last(events'[t]).data.sessionId
       /\ \A t \in Tasks :
            (AcceptedChat(t) /\ req'[t].sessionId = Absent) =>
                sessionHistory'["default"] = session'[t]
       /\ \A s \in SessionIdInputsOfStore \ {""}, now \in 0..MaxClock :
            ClearSession(s, now) => ~Stored(UsedByChat(s))'
       /\ \A s \in SessionIdInputsOfStore \ {""} :
            ReqGetSessionInfo(s) =>
                syncEvent'.data.info = GetSessionInfo(UsedByChat(s))]_vars

(* C29  No step that ends a generation resets the current-handle slot, and *)
(* an interrupt handled after the generation that owns the slot's handle   *)
(* has finished signals that stale handle and no other; the handle that is *)
(* in the slot when a generation reaches the runtime is unsignalled,       *)
(* whatever interrupts were handled before.                                *)
\* Generation request t reaches the runtime in this step.
ReachesRuntime(t) == pc[t] = "idle" /\ pc'[t] = "generate"

\* Generation request t ends in this step.
Finishes(t) == pc[t] = "generate" /\ pc'[t] = "done"

\* The step handles an interrupt while the owner of the slot's handle has
\* finished.
StaleInterrupt ==
    /\ inbound' = "interrupt"
    /\ currentStoppingCriteria # 0
    /\ pc[currentStoppingCriteria] = "done"

C29_StaleHandleHarmless ==
    [][/\ \A t \in Tasks :
            Finishes(t) =>
                /\ currentStoppingCriteria' = currentStoppingCriteria
                /\ currentStoppingCriteria' # 0
       /\ StaleInterrupt =>
            /\ interrupted'[currentStoppingCriteria]
            /\ \A u \in Tasks \ {currentStoppingCriteria} :
                    interrupted'[u] = interrupted[u]
       /\ \A t \in Tasks :
            ReachesRuntime(t) =>
                /\ currentStoppingCriteria' # 0
                /\ ~interrupted'[currentStoppingCriteria']
                /\ ~interrupted'[t]]_vars

\* Generation A has finished and its handle is signalled; generation B,
\* started later, is in progress with the slot's handle, which is not
\* signalled.
C29_Witness ==
    \E a, b \in GenerationTasks :
        /\ a < b
        /\ pc[a] = "done" /\ input[a] # <<>>
        /\ interrupted[a]
        /\ Generating(b)
        /\ currentStoppingCriteria = b
        /\ ~interrupted[b]

\* No interrupt is ever handled while the owner of the slot's handle has
\* finished and that handle is unsignalled (refuted: the case of C29
\* happens).
C29_NeverStale ==
    [][~(StaleInterrupt /\ ~interrupted[currentStoppingCriteria])]_vars

(* C30  The tokenizer and the model weights are each loaded at most once:  *)
(* an initialize request invokes the runtime's tokenizer load only when no *)
(* tokenizer load has resolved or is pending, and its model load only when *)
(* no model load has resolved or is pending, also when it is handled while *)
(* an earlier initialize is suspended in a load.  (A load that was         *)
(* rejected is not counted.)                                               *)
InvokesTokenizerLoad(t) == pc[t] # "loadTokenizer" /\ pc'[t] = "loadTokenizer"
InvokesModelLoad(t) == pc[t] # "loadModel" /\ pc'[t] = "loadModel"

C30_LoadedOnce ==
    [][\A t \in Tasks :
        /\ InvokesTokenizerLoad(t) =>
            /\ tokenizer = NotLoaded
            /\ \A u \in Tasks \ {t} : pc[u] # "loadTokenizer"
        /\ InvokesModelLoad(t) =>
            /\ model = NotLoaded
            /\ \A u \in Tasks \ {t} : pc[u] # "loadModel"]_vars

\* C30 for the initialize requests handled while no other initialize is
\* suspended.
C30_OneAtATime ==
    [][\A t \in Tasks :
        (\A u \in Tasks \ {t} :
            pc[u] \notin {"loadTokenizer", "loadModel", "warmup"}) =>
            /\ InvokesTokenizerLoad(t) => tokenizer = NotLoaded
            /\ InvokesModelLoad(t) => model = NotLoaded]_vars

(* C31  The UI client keeps at most one generateChat request outstanding:  *)
(* it posts a generateChat message, by a click on Send or by the Enter     *)
(* key, only when it has handled the complete or error event of every      *)
(* generateChat it posted before, and only after it has handled a ready    *)
(* event of an initialize.                                                 *)
\* The events of request t that the client has handled.
Handled(t) == SubSeq(events[t], 1, client.handled[t])

\* The client has posted generateChat request t and has not handled its
\* complete or error event.
Outstanding(t) ==
    /\ kind[t] = "generateChat"
    /\ \A i \in DOMAIN Handled(t) : Handled(t)[i].status \notin {"complete", "error"}

ReadyHandled ==
    \E t \in InitializeTasks :
        \E i \in DOMAIN Handled(t) : Handled(t)[i].status = "ready"

\* The client posts generateChat request t in this step.
PostsChat(t) == kind[t] = "none" /\ kind'[t] = "generateChat"

C31_OneOutstanding ==
    [][\A t \in Tasks :
        PostsChat(t) =>
            /\ \A u \in Tasks \ {t} : ~Outstanding(u)
            /\ ReadyHandled]_vars

\* The second part of C31 alone: generateChat is posted only after the
\* client has handled a ready event; and the flag and the controls agree
\* with that.
C31_OnlyAfterReady ==
    /\ [][\A t \in Tasks : PostsChat(t) => ReadyHandled]_vars
    /\ [](client.isModelLoaded <=> ReadyHandled)
    /\ [](~ReadyHandled => (client.sendDisabled /\ client.inputDisabled))

\* No generateChat is posted while the Send button is disabled (refuted:
\* the Enter key posts one while a generation whose start event the client
\* has handled is in progress).
C31_NoneWhileSendDisabled ==
    [][\A t \in Tasks : PostsChat(t) => ~client.sendDisabled]_vars

====
